---- MODULE Spec2Model ----
(***************************************************************************)
(* Model of the cyclic task scheduler and runtime-measurement ledger of    *)
(* firmware/ProstheticHand/src/main.cpp.                                   *)
(*                                                                         *)
(* Widths are scaled: the microsecond counter returned by micros() and the *)
(* uint32_t ledger fields wrap at U32 (standing for 2^32), the uint64_t    *)
(* globals main_g_CurrMicros_u64 / main_g_LastMicros_u64 wrap at U64       *)
(* (standing for 2^64).  The slot length (1000 us in the firmware) and the *)
(* number of task slots (10 in the firmware) are scaled the same way.      *)
(***************************************************************************)
EXTENDS Integers, Sequences, FiniteSets

\* ---------------------------------------------------------------- bounds
\* modulus of the 32-bit quantities (micros(), uint32_t fields)
U32 == 8
\* largest MAIN_CYCLE_TASK_COUNT a build is configured with
MaxTaskCount == 4
\* the scheduler is followed for at most this many fired slots
MaxFires == 4
\* longest run time of one task handler, in clock units
MaxHandlerUs == 3
\* largest clock reading at the moment setup() runs
MaxBootUs == 1
\* slot length in clock units (1000 in the firmware)
main_g_CycleTaskLengthUs_u16 == 2
\* the run without an end: largest task count and longest handler run time
LiveMaxTaskCount == 2
LiveMaxHandlerUs == 1
\* longest time between two calls of loop(), beyond the handler's run time
MaxLoopGapUs == 3
\* the build with SERIAL_DEBUG: task count, fires followed, handler run time
DiagMaxTaskCount == 2
DiagMaxFires == 2
DiagMaxHandlerUs == 2
\* the two runs side by side: task count, fires followed, handler run time
PairMaxTaskCount == 2
PairMaxFires == 2
PairMaxHandlerUs == 2

\* ------------------------------------------------------------- constants
\* modulus of the uint16_t task index
U16 == 65536
\* number of case labels of the dispatch switch (case 0 .. case 9)
SwitchCaseCount == 10

\* modulus of the 64-bit globals: the square of the 32-bit modulus
U64 == U32 * U32

VARIABLES
  clock,                     \* the hardware microsecond counter read by micros()
  pc,                        \* "boot" before setup(), "run" while loop() is called
  MAIN_CYCLE_TASK_COUNT,     \* the build's task slot count
  main_g_CurrMicros_u64,
  main_g_LastMicros_u64,
  main_g_CurrTaskIndex_u16,
  main_g_RuntimeMeas_s,      \* [0..MAIN_CYCLE_TASK_COUNT-1 -> record of 3 fields]
  log,                       \* history: slot indices dispatched, in order
  calls,                     \* history: collaborator functions called, in order
  hist,                      \* history: per slot, the durations recorded
  run2_LastMicros_u64,       \* a second run of the scheduler, given the same
  run2_CurrTaskIndex_u16,    \*   clock readings as the first: its last fire
  run2_RuntimeMeas_s,        \*   time, its task index, its ledger and the
  run2_log,                  \*   slot indices it dispatched
  initDone,                  \* SERIAL_DEBUG build: statements of main_f_Init_v
                             \*   executed so far, in order
  hpc,                       \* SERIAL_DEBUG build: position of the main task
                             \*   in main_f_Handle_v / main_f_HandleRTMStats_v
  dpc,                       \* position of the main_f_SerialDebug_v task
                             \*   ("none": not created)
  i_dbg,                     \* main_f_SerialDebug_v: its loop variable i
  printed,                   \* the values it printed for record i so far
  dbgCalls                   \* the collaborator dumps it called this round

\* the variables of the second run
pairVars == << run2_LastMicros_u64, run2_CurrTaskIndex_u16,
               run2_RuntimeMeas_s, run2_log >>

\* the variables of the build with SERIAL_DEBUG
diagVars == << initDone, hpc, dpc, i_dbg, printed, dbgCalls >>

\* the variables only the specifications other than Spec use
auxVars == << pairVars, diagVars >>

vars == << clock, pc, MAIN_CYCLE_TASK_COUNT, main_g_CurrMicros_u64,
           main_g_LastMicros_u64, main_g_CurrTaskIndex_u16,
           main_g_RuntimeMeas_s, log, calls, hist, auxVars >>

Slots == 0 .. (MAIN_CYCLE_TASK_COUNT - 1)

\* a zero-initialised main_g_RuntimeMeasTyp_t
ZeroMeas == [currentCycle_u32 |-> 0, minCycle_u32 |-> 0, maxCycle_u32 |-> 0]

\* micros(): the current value of the microsecond counter.  It is the Arduino
\* core's unsigned long micros(), 32 bits wide on the ESP32 this firmware is
\* built for (main_f_StartRTM_v returns it as uint32_t), so its values lie in
\* 0 .. U32-1 and it wraps at U32; the assignment to main_g_CurrMicros_u64
\* zero-extends it.
micros == clock

\* unsigned subtraction a - b in a type of modulus m
USub(a, b, m) == ((a - b) + m) % m

\* ------------------------------------------------------ runtime measurement
main_f_StartRTM_v(now) == now % U32

\* variant: the difference is taken without wrapping, 0 when it is negative
StopRTM_NoWrap(now, rtmStart) ==
  IF now % U32 >= rtmStart THEN (now % U32) - rtmStart ELSE 0

main_f_StopRTM_v(now, rtmStart) == USub(now % U32, rtmStart, U32)

\* variant: the maximum is overwritten by every measurement
HandleRTMStats_MaxOverwritten(meas, index) ==
  LET cur == meas[index].currentCycle_u32
      m1 == [meas EXCEPT ![index].maxCycle_u32 = cur]
      m2 == IF cur < m1[index].minCycle_u32
              THEN [m1 EXCEPT ![index].minCycle_u32 = cur]
              ELSE m1
      m3 == IF m2[index].minCycle_u32 = 0
              THEN [m2 EXCEPT ![index].minCycle_u32 = cur]
              ELSE m2
  IN m3

\* variant: the minimum is only ever set from the zero value, never lowered
HandleRTMStats_MinNeverLowered(meas, index) ==
  LET cur == meas[index].currentCycle_u32
      m1 == IF cur > meas[index].maxCycle_u32
              THEN [meas EXCEPT ![index].maxCycle_u32 = cur]
              ELSE meas
      m3 == IF m1[index].minCycle_u32 = 0
              THEN [m1 EXCEPT ![index].minCycle_u32 = cur]
              ELSE m1
  IN m3

\* variant: the zero value of the minimum is not replaced
HandleRTMStats_NoZeroReplacement(meas, index) ==
  LET cur == meas[index].currentCycle_u32
      m1 == IF cur > meas[index].maxCycle_u32
              THEN [meas EXCEPT ![index].maxCycle_u32 = cur]
              ELSE meas
      m2 == IF cur < m1[index].minCycle_u32
              THEN [m1 EXCEPT ![index].minCycle_u32 = cur]
              ELSE m1
  IN m2

\* variant: the comparison that lowers the minimum is reversed
HandleRTMStats_MinCompareReversed(meas, index) ==
  LET cur == meas[index].currentCycle_u32
      m1 == IF cur > meas[index].maxCycle_u32
              THEN [meas EXCEPT ![index].maxCycle_u32 = cur]
              ELSE meas
      m2 == IF cur > m1[index].minCycle_u32
              THEN [m1 EXCEPT ![index].minCycle_u32 = cur]
              ELSE m1
      m3 == IF m2[index].minCycle_u32 = 0
              THEN [m2 EXCEPT ![index].minCycle_u32 = cur]
              ELSE m2
  IN m3

\* variant: the zero test looks at the current duration, not at the minimum
HandleRTMStats_ZeroTestOnCurrent(meas, index) ==
  LET cur == meas[index].currentCycle_u32
      m1 == IF cur > meas[index].maxCycle_u32
              THEN [meas EXCEPT ![index].maxCycle_u32 = cur]
              ELSE meas
      m2 == IF cur < m1[index].minCycle_u32
              THEN [m1 EXCEPT ![index].minCycle_u32 = cur]
              ELSE m1
      m3 == IF cur = 0
              THEN [m2 EXCEPT ![index].minCycle_u32 = cur]
              ELSE m2
  IN m3

\* first if of main_f_HandleRTMStats_v: keep track of the maximum
RTMStatsMax(meas, index) ==
  IF meas[index].currentCycle_u32 > meas[index].maxCycle_u32
    THEN [meas EXCEPT ![index].maxCycle_u32 = meas[index].currentCycle_u32]
    ELSE meas

\* second if: keep track of the minimum
RTMStatsMinLower(meas, index) ==
  IF meas[index].currentCycle_u32 < meas[index].minCycle_u32
    THEN [meas EXCEPT ![index].minCycle_u32 = meas[index].currentCycle_u32]
    ELSE meas

\* third if: a minimum of 0 is replaced by the current duration
RTMStatsMinZero(meas, index) ==
  IF meas[index].minCycle_u32 = 0
    THEN [meas EXCEPT ![index].minCycle_u32 = meas[index].currentCycle_u32]
    ELSE meas

main_f_HandleRTMStats_v(meas, index) ==
  RTMStatsMinZero(RTMStatsMinLower(RTMStatsMax(meas, index), index), index)

\* ------------------------------------------------------------- scheduler
\* variant: strictly more than a slot length must have passed
SlotDue_Strict(curr, last) ==
  USub(curr, last, U64) > main_g_CycleTaskLengthUs_u16

\* the condition of the if in main_f_Handle_v
SlotDue(curr, last) ==
  USub(curr, last, U64) >= main_g_CycleTaskLengthUs_u16

\* variant: the fire time advances by one slot length (catching up)
FireTimestamp_CatchUp(curr, last) ==
  (last + main_g_CycleTaskLengthUs_u16) % U64

\* the value main_g_LastMicros_u64 takes when a slot fires
FireTimestamp(curr, last) == curr

\* variant: case 0 lacks its break and falls through into case 1
DispatchSwitch_FallThrough(index) ==
  IF index = 0 THEN << "btn_Handle_v", "pot_f_Handle_v" >>
  ELSE IF index = 1 THEN << "pot_f_Handle_v" >>
  ELSE IF index = 2 THEN << "srv_Handle_v" >>
  ELSE << >>

\* the collaborator handler the switch calls for a task index
DispatchSwitch(index) ==
  IF index = 0 THEN << "btn_Handle_v" >>
  ELSE IF index = 1 THEN << "pot_f_Handle_v" >>
  ELSE IF index = 2 THEN << "srv_Handle_v" >>
  ELSE IF index \in 3 .. (SwitchCaseCount - 1) THEN << >>
  ELSE << >>

\* variant: the index wraps one slot early
NextTaskIndex_WrapEarly(index, count) ==
  LET inc == (index + 1) % U16
  IN IF inc >= count - 1 THEN 0 ELSE inc

\* variant: the index wraps one slot late
NextTaskIndex_WrapLate(index, count) ==
  LET inc == (index + 1) % U16
  IN IF inc > count THEN 0 ELSE inc

\* the increment and wrap of the task index
NextTaskIndex(index, count) ==
  LET inc == (index + 1) % U16
  IN IF inc >= count THEN 0 ELSE inc

\* variant: the duration is stored after the index has moved on
MeasuredSlot_AfterIncrement(index, count) ==
  LET inc == (index + 1) % U16
  IN IF inc >= count THEN 0 ELSE inc

\* the ledger entry the measured duration is stored in
MeasuredSlot(index, count) == index

\* variant: a handler that overran its slot makes the index skip a slot
IndexAfterFire_SkipOnOverrun(meas, index, count) ==
  LET inc == (index + 1) % U16
      next == IF inc >= count THEN 0 ELSE inc
      inc2 == (next + 1) % U16
      next2 == IF inc2 >= count THEN 0 ELSE inc2
  IN IF meas[index].currentCycle_u32 >= main_g_CycleTaskLengthUs_u16
       THEN next2 ELSE next

\* the task index after a fire whose bookkeeping left the ledger meas
IndexAfterFire(meas, index, count) == NextTaskIndex(index, count)

\* setup(): main_f_Init_v
main_f_Init_v ==
  /\ pc = "boot"
  /\ pc' = "run"
  /\ main_g_RuntimeMeas_s' = [i \in Slots |-> ZeroMeas]
  /\ calls' = calls \o << "btn_Init_v", "pot_f_Init_v", "srv_Init_v" >>
  /\ UNCHANGED << clock, MAIN_CYCLE_TASK_COUNT, main_g_CurrMicros_u64,
                  main_g_LastMicros_u64, main_g_CurrTaskIndex_u16,
                  log, hist >>

\* loop(): main_f_Handle_v, the slot not being due
HandleIdle ==
  /\ ~ SlotDue(micros, main_g_LastMicros_u64)
  /\ main_g_CurrMicros_u64' = micros
  /\ UNCHANGED << clock, pc, MAIN_CYCLE_TASK_COUNT, main_g_LastMicros_u64,
                  main_g_CurrTaskIndex_u16, main_g_RuntimeMeas_s,
                  log, calls, hist >>

\* the duration main_f_StopRTM_v returns when the handler runs for d
MeasuredDuration(d) ==
  main_f_StopRTM_v((clock + d) % U32, main_f_StartRTM_v(clock))

\* loop(): main_f_Handle_v, the slot being due; the handler runs for d.
\* The program's own state (the histories are left to the caller).
FireProgram(d) ==
  LET curr == micros
      index == main_g_CurrTaskIndex_u16
      dur == MeasuredDuration(d)
      slot == MeasuredSlot(index, MAIN_CYCLE_TASK_COUNT)
      written == [main_g_RuntimeMeas_s EXCEPT ![slot].currentCycle_u32 = dur]
      stats == main_f_HandleRTMStats_v(written, index)
  IN /\ SlotDue(curr, main_g_LastMicros_u64)
     /\ main_g_CurrMicros_u64' = curr
     /\ main_g_LastMicros_u64' = FireTimestamp(curr, main_g_LastMicros_u64)
     /\ clock' = (clock + d) % U32
     /\ main_g_RuntimeMeas_s' = stats
     /\ main_g_CurrTaskIndex_u16' =
          IndexAfterFire(stats, index, MAIN_CYCLE_TASK_COUNT)
     /\ UNCHANGED << pc, MAIN_CYCLE_TASK_COUNT >>

\* loop(): main_f_Handle_v, the slot being due, with the histories
HandleFire(d) ==
  LET index == main_g_CurrTaskIndex_u16
  IN /\ FireProgram(d)
     /\ calls' = calls \o DispatchSwitch(index)
     /\ log' = Append(log, index)
     /\ hist' = [hist EXCEPT ![index] = Append(@, MeasuredDuration(d))]

main_f_Handle_v ==
  /\ pc = "run"
  /\ Len(log) < MaxFires
  /\ \/ HandleIdle
     \/ \E d \in 0 .. MaxHandlerUs : HandleFire(d)

\* time passing between two calls of loop()
ClockAdvance ==
  /\ pc = "run"
  /\ Len(log) < MaxFires
  /\ clock' = (clock + 1) % U32
  /\ UNCHANGED << pc, MAIN_CYCLE_TASK_COUNT, main_g_CurrMicros_u64,
                  main_g_LastMicros_u64, main_g_CurrTaskIndex_u16,
                  main_g_RuntimeMeas_s, log, calls, hist >>

Init ==
  /\ clock \in 0 .. MaxBootUs
  /\ pc = "boot"
  /\ MAIN_CYCLE_TASK_COUNT \in 1 .. MaxTaskCount
  /\ main_g_CurrMicros_u64 = 0
  /\ main_g_LastMicros_u64 = 0
  /\ main_g_CurrTaskIndex_u16 = 0
  /\ main_g_RuntimeMeas_s = [i \in Slots |-> ZeroMeas]
  /\ log = << >>
  /\ calls = << >>
  /\ hist = [i \in Slots |-> << >>]
  /\ run2_LastMicros_u64 = 0
  /\ run2_CurrTaskIndex_u16 = 0
  /\ run2_RuntimeMeas_s = [i \in Slots |-> ZeroMeas]
  /\ run2_log = << >>
  /\ initDone = << >>
  /\ hpc = "poll"
  /\ dpc = "none"
  /\ i_dbg = 0
  /\ printed = ZeroMeas
  /\ dbgCalls = << >>

Next ==
  \/ main_f_Init_v /\ UNCHANGED auxVars
  \/ main_f_Handle_v /\ UNCHANGED auxVars
  \/ ClockAdvance /\ UNCHANGED auxVars

Spec == Init /\ [][Next]_vars

\* ------------------------------------------- the scheduler running forever
\* The same program followed without an end: the histories are not kept, so
\* the state space is finite.  loop() is called back to back by the Arduino
\* core, so the clock moves at most MaxLoopGapUs between two calls.
LiveFire(d) ==
  /\ FireProgram(d)
  /\ UNCHANGED << log, calls, hist >>

LiveHandle ==
  /\ pc = "run"
  /\ \/ HandleIdle
     \/ \E d \in 0 .. LiveMaxHandlerUs : LiveFire(d)
  /\ UNCHANGED auxVars

LiveClockAdvance ==
  /\ USub(clock, main_g_CurrMicros_u64 % U32, U32) < MaxLoopGapUs
  /\ ClockAdvance
  /\ UNCHANGED auxVars

LiveSetup ==
  /\ main_f_Init_v
  /\ UNCHANGED auxVars

LiveInit ==
  /\ Init
  /\ MAIN_CYCLE_TASK_COUNT <= LiveMaxTaskCount

LiveNext ==
  \/ LiveSetup
  \/ LiveHandle
  \/ LiveClockAdvance

SpecLive ==
  /\ LiveInit
  /\ [][LiveNext]_vars
  /\ WF_vars(LiveSetup)
  /\ WF_vars(LiveHandle)
  /\ WF_vars(LiveClockAdvance)

\* -------------------------------- two runs given the same clock readings
\* The first run is the program as above.  The second run reads the same
\* clock value at every call of loop() and its handler runs for d2; it is
\* the same code on its own copy of the scheduler state and of the ledger.
Run2Handle(d2) ==
  LET curr == micros
      index == run2_CurrTaskIndex_u16
      dur == MeasuredDuration(d2)
      slot == MeasuredSlot(index, MAIN_CYCLE_TASK_COUNT)
      written == [run2_RuntimeMeas_s EXCEPT ![slot].currentCycle_u32 = dur]
      stats == main_f_HandleRTMStats_v(written, index)
  IN IF SlotDue(curr, run2_LastMicros_u64)
       THEN /\ run2_LastMicros_u64' = FireTimestamp(curr, run2_LastMicros_u64)
            /\ run2_RuntimeMeas_s' = stats
            /\ run2_CurrTaskIndex_u16' =
                 IndexAfterFire(stats, index, MAIN_CYCLE_TASK_COUNT)
            /\ run2_log' = Append(run2_log, index)
       ELSE UNCHANGED pairVars

PairHandle ==
  /\ pc = "run"
  /\ Len(log) < PairMaxFires
  /\ Len(run2_log) < PairMaxFires
  /\ \/ HandleIdle
     \/ \E d \in 0 .. PairMaxHandlerUs : HandleFire(d)
  /\ \E d2 \in 0 .. PairMaxHandlerUs : Run2Handle(d2)
  /\ UNCHANGED diagVars

PairClockAdvance ==
  /\ Len(log) < PairMaxFires
  /\ Len(run2_log) < PairMaxFires
  /\ USub(clock, main_g_CurrMicros_u64 % U32, U32) < MaxLoopGapUs
  /\ ClockAdvance
  /\ UNCHANGED auxVars

PairSetup ==
  /\ main_f_Init_v
  /\ UNCHANGED auxVars

PairInit ==
  /\ Init
  /\ MAIN_CYCLE_TASK_COUNT <= PairMaxTaskCount

PairNext ==
  \/ PairSetup
  \/ PairHandle
  \/ PairClockAdvance

SpecPair == PairInit /\ [][PairNext]_vars

\* ------------------------------------------- the build with SERIAL_DEBUG
\* main_f_Init_v statement by statement, main_f_Handle_v and
\* main_f_HandleRTMStats_v write by write, and main_f_SerialDebug_v read by
\* read: the task runs on the other core, so its reads fall anywhere
\* between the writes of the main task.

\* variant: the task is created before the ledger is prepared
InitOrder_TaskFirst ==
  << "xTaskCreatePinnedToCore", "zero", "btn_Init_v", "pot_f_Init_v",
     "srv_Init_v" >>

\* the statements of main_f_Init_v in program order
InitOrder ==
  << "zero", "btn_Init_v", "pot_f_Init_v", "srv_Init_v",
     "xTaskCreatePinnedToCore" >>

InitCalls == { "btn_Init_v", "pot_f_Init_v", "srv_Init_v" }

\* setup(): the next statement of main_f_Init_v
DiagInitStep ==
  /\ pc = "boot"
  /\ Len(initDone) < Len(InitOrder)
  /\ LET st == InitOrder[Len(initDone) + 1]
     IN /\ initDone' = Append(initDone, st)
        /\ pc' = IF Len(initDone) + 1 = Len(InitOrder) THEN "run" ELSE "boot"
        /\ main_g_RuntimeMeas_s' =
             IF st = "zero" THEN [i \in Slots |-> ZeroMeas]
                            ELSE main_g_RuntimeMeas_s
        /\ calls' = IF st \in InitCalls THEN Append(calls, st) ELSE calls
        /\ dpc' = IF st = "xTaskCreatePinnedToCore" THEN "cur" ELSE dpc
  /\ UNCHANGED << clock, MAIN_CYCLE_TASK_COUNT, main_g_CurrMicros_u64,
                  main_g_LastMicros_u64, main_g_CurrTaskIndex_u16,
                  log, hist, pairVars, hpc, i_dbg, printed, dbgCalls >>

\* loop(): main_f_Handle_v, the slot not being due
DiagHandleIdle ==
  /\ pc = "run"
  /\ hpc = "poll"
  /\ Len(log) < DiagMaxFires
  /\ HandleIdle
  /\ UNCHANGED auxVars

\* loop(): main_f_Handle_v from micros() to the write of currentCycle_u32
DiagHandleWrite(d) ==
  LET curr == micros
      index == main_g_CurrTaskIndex_u16
      dur == MeasuredDuration(d)
      slot == MeasuredSlot(index, MAIN_CYCLE_TASK_COUNT)
  IN /\ pc = "run"
     /\ hpc = "poll"
     /\ Len(log) < DiagMaxFires
     /\ SlotDue(curr, main_g_LastMicros_u64)
     /\ main_g_CurrMicros_u64' = curr
     /\ main_g_LastMicros_u64' = FireTimestamp(curr, main_g_LastMicros_u64)
     /\ clock' = (clock + d) % U32
     /\ main_g_RuntimeMeas_s' =
          [main_g_RuntimeMeas_s EXCEPT ![slot].currentCycle_u32 = dur]
     /\ calls' = calls \o DispatchSwitch(index)
     /\ log' = Append(log, index)
     /\ hist' = [hist EXCEPT ![index] = Append(@, dur)]
     /\ hpc' = "max"
     /\ UNCHANGED << pc, MAIN_CYCLE_TASK_COUNT, main_g_CurrTaskIndex_u16,
                     pairVars, initDone, dpc, i_dbg, printed, dbgCalls >>

\* main_f_HandleRTMStats_v, one if at a time; after the third the index
\* is incremented and main_f_Handle_v returns
DiagStatsStep ==
  LET index == main_g_CurrTaskIndex_u16
      meas == main_g_RuntimeMeas_s
  IN /\ pc = "run"
     /\ \/ /\ hpc = "max"
           /\ main_g_RuntimeMeas_s' = RTMStatsMax(meas, index)
           /\ hpc' = "minlower"
           /\ UNCHANGED main_g_CurrTaskIndex_u16
        \/ /\ hpc = "minlower"
           /\ main_g_RuntimeMeas_s' = RTMStatsMinLower(meas, index)
           /\ hpc' = "minzero"
           /\ UNCHANGED main_g_CurrTaskIndex_u16
        \/ /\ hpc = "minzero"
           /\ main_g_RuntimeMeas_s' = RTMStatsMinZero(meas, index)
           /\ hpc' = "poll"
           /\ main_g_CurrTaskIndex_u16' =
                IndexAfterFire(RTMStatsMinZero(meas, index), index,
                               MAIN_CYCLE_TASK_COUNT)
     /\ UNCHANGED << clock, pc, MAIN_CYCLE_TASK_COUNT, main_g_CurrMicros_u64,
                     main_g_LastMicros_u64, log, calls, hist, pairVars,
                     initDone, dpc, i_dbg, printed, dbgCalls >>

DiagClockAdvance ==
  /\ hpc = "poll"
  /\ Len(log) < DiagMaxFires
  /\ USub(clock, main_g_CurrMicros_u64 % U32, U32) < MaxLoopGapUs
  /\ ClockAdvance
  /\ UNCHANGED auxVars

\* variant: a record is cleared once its three values are printed
LedgerAfterPrint_ClearOnReport(meas, i) == [meas EXCEPT ![i] = ZeroMeas]

\* the ledger after main_f_SerialDebug_v printed record i
LedgerAfterPrint(meas, i) == meas

\* main_f_SerialDebug_v: the three prints of record i, one read each
DiagPrintStep ==
  /\ \/ /\ dpc = "cur"
        /\ printed' = [printed EXCEPT !.currentCycle_u32 =
                         main_g_RuntimeMeas_s[i_dbg].currentCycle_u32]
        /\ dpc' = "min"
        /\ UNCHANGED main_g_RuntimeMeas_s
     \/ /\ dpc = "min"
        /\ printed' = [printed EXCEPT !.minCycle_u32 =
                         main_g_RuntimeMeas_s[i_dbg].minCycle_u32]
        /\ dpc' = "max"
        /\ UNCHANGED main_g_RuntimeMeas_s
     \/ /\ dpc = "max"
        /\ printed' = [printed EXCEPT !.maxCycle_u32 =
                         main_g_RuntimeMeas_s[i_dbg].maxCycle_u32]
        /\ dpc' = "next"
        /\ main_g_RuntimeMeas_s' = LedgerAfterPrint(main_g_RuntimeMeas_s, i_dbg)
  /\ UNCHANGED << clock, pc, MAIN_CYCLE_TASK_COUNT, main_g_CurrMicros_u64,
                  main_g_LastMicros_u64, main_g_CurrTaskIndex_u16,
                  log, calls, hist, pairVars, initDone, hpc, i_dbg, dbgCalls >>

\* main_f_SerialDebug_v: i++ and the test of the for loop
DiagNextRecord ==
  /\ dpc = "next"
  /\ i_dbg' = i_dbg + 1
  /\ printed' = ZeroMeas
  /\ dpc' = IF i_dbg + 1 < MAIN_CYCLE_TASK_COUNT THEN "cur" ELSE "dump"
  /\ UNCHANGED << clock, pc, MAIN_CYCLE_TASK_COUNT, main_g_CurrMicros_u64,
                  main_g_LastMicros_u64, main_g_CurrTaskIndex_u16,
                  main_g_RuntimeMeas_s, log, calls, hist, pairVars,
                  initDone, hpc, dbgCalls >>

\* main_f_SerialDebug_v: the collaborators' dumps
DiagDump ==
  /\ dpc = "dump"
  /\ dbgCalls' = << "btn_SerialDebug_v", "pot_f_SerialDebug_v",
                    "srv_SerialDebug_v" >>
  /\ dpc' = "delay"
  /\ UNCHANGED << clock, pc, MAIN_CYCLE_TASK_COUNT, main_g_CurrMicros_u64,
                  main_g_LastMicros_u64, main_g_CurrTaskIndex_u16,
                  main_g_RuntimeMeas_s, log, calls, hist, pairVars,
                  initDone, hpc, i_dbg, printed >>

\* main_f_SerialDebug_v: vTaskDelay, then the next round of while(1)
DiagDelay ==
  /\ dpc = "delay"
  /\ dbgCalls' = << >>
  /\ i_dbg' = 0
  /\ dpc' = "cur"
  /\ UNCHANGED << clock, pc, MAIN_CYCLE_TASK_COUNT, main_g_CurrMicros_u64,
                  main_g_LastMicros_u64, main_g_CurrTaskIndex_u16,
                  main_g_RuntimeMeas_s, log, calls, hist, pairVars,
                  initDone, hpc, printed >>

main_f_SerialDebug_v ==
  \/ DiagPrintStep
  \/ DiagNextRecord
  \/ DiagDump
  \/ DiagDelay

DiagInit ==
  /\ Init
  /\ MAIN_CYCLE_TASK_COUNT <= DiagMaxTaskCount

DiagNext ==
  \/ DiagInitStep
  \/ DiagHandleIdle
  \/ \E d \in 0 .. DiagMaxHandlerUs : DiagHandleWrite(d)
  \/ DiagStatsStep
  \/ DiagClockAdvance
  \/ main_f_SerialDebug_v

SpecDiag == DiagInit /\ [][DiagNext]_vars

\* ------------------------------------------------------ auxiliary notions
\* the largest and the smallest element of a non-empty sequence of numbers
SeqMax(s) == CHOOSE x \in {s[k] : k \in 1 .. Len(s)} :
               \A k \in 1 .. Len(s) : s[k] <= x

SeqMin(s) == CHOOSE x \in {s[k] : k \in 1 .. Len(s)} :
               \A k \in 1 .. Len(s) : x <= s[k]

\* the elapsed time the tick entry point computes: 64-bit unsigned subtraction
Elapsed64 == USub(clock, main_g_LastMicros_u64, U64)

\* the elapsed time on the wrapping 32-bit microsecond counter
ElapsedOnCounter == USub(clock, main_g_LastMicros_u64 % U32, U32)

\* a step is a call of loop() exactly when the program is running and the
\* step dispatches a slot or leaves the clock where it was (time passing
\* moves the clock and dispatches nothing)
HandleStep == pc = "run" /\ (log' # log \/ clock' = clock)

\* HandleStep singles out the steps of main_f_Handle_v
HandleStepIsHandle == [][HandleStep <=> main_f_Handle_v]_vars

\* the scheduler state and the ledger are left as they were
SchedulerUntouched ==
  UNCHANGED << main_g_CurrTaskIndex_u16, main_g_LastMicros_u64,
               main_g_RuntimeMeas_s, calls, log, hist >>

\* ---------------------------------------------------------------- claims

C3_NoCatchUp ==
  [][ /\ ( /\ HandleStep
           /\ Elapsed64 >= 2 * main_g_CycleTaskLengthUs_u16
           /\ Elapsed64 % main_g_CycleTaskLengthUs_u16 = 0 )
         => /\ log' = Append(log, main_g_CurrTaskIndex_u16)
            /\ main_g_LastMicros_u64' = clock
            /\ main_g_CurrTaskIndex_u16' =
                 (main_g_CurrTaskIndex_u16 + 1) % MAIN_CYCLE_TASK_COUNT
      /\ ( /\ HandleStep
           /\ log # << >>
           /\ clock >= main_g_LastMicros_u64
           /\ clock - main_g_LastMicros_u64 < main_g_CycleTaskLengthUs_u16 )
         => log' = log ]_vars

\* C3 witness: the first fire came after a stall of two slot lengths, and the
\* tick after it, less than a slot length later, dispatched nothing
C3_Witness ==
  /\ log = << 0 >>
  /\ main_g_LastMicros_u64 = 2 * main_g_CycleTaskLengthUs_u16
  /\ main_g_CurrMicros_u64 > main_g_LastMicros_u64
  /\ main_g_CurrMicros_u64 - main_g_LastMicros_u64 < main_g_CycleTaskLengthUs_u16

\* C4 (P5 wraparound safety): once the microsecond counter has wrapped past
\* zero since the last fire, a tick fires when, and only when, the elapsed
\* time modulo the counter width has reached the slot length.
C4_WraparoundSafe ==
  [][ ( /\ HandleStep
        /\ clock < main_g_LastMicros_u64 )
      => ( (log' # log)
             <=> (ElapsedOnCounter >= main_g_CycleTaskLengthUs_u16) ) ]_vars

\* C5 (P3 min/max monotonicity): for every slot, minCycle <= maxCycle, and
\* maxCycle is the maximum of all durations recorded for the slot.
C5_MinMaxMonotone ==
  \A i \in Slots :
    /\ main_g_RuntimeMeas_s[i].minCycle_u32 <= main_g_RuntimeMeas_s[i].maxCycle_u32
    /\ main_g_RuntimeMeas_s[i].maxCycle_u32 =
         (IF hist[i] = << >> THEN 0 ELSE SeqMax(hist[i]))

\* C5 witness: a slot recorded a large, a zero and a small duration
C5_Witness ==
  \E i \in Slots :
    /\ hist[i] = << 3, 0, 1 >>
    /\ main_g_RuntimeMeas_s[i].maxCycle_u32 = 3

\* C6 (ledger record invariant): a slot that has not fired holds the all-zero
\* record; every record is all-zero or has min <= current <= max; the current
\* duration of a slot that has fired is that of its latest firing.
C6_LedgerInvariant ==
  \A i \in Slots :
    LET r == main_g_RuntimeMeas_s[i]
    IN /\ (hist[i] = << >>) => (r = ZeroMeas)
       /\ \/ r = ZeroMeas
          \/ /\ r.minCycle_u32 <= r.currentCycle_u32
             /\ r.currentCycle_u32 <= r.maxCycle_u32
       /\ (hist[i] # << >>) => (r.currentCycle_u32 = hist[i][Len(hist[i])])

\* C6 witness: of three slots, slot 0 holds a measured record, slot 1 was
\* measured at duration 0, and slot 2 has not fired and is still all-zero
C6_Witness ==
  /\ MAIN_CYCLE_TASK_COUNT = 3
  /\ hist[0] = << 2 >>
  /\ hist[1] = << 0 >>
  /\ hist[2] = << >>
  /\ main_g_RuntimeMeas_s[0] =
       [currentCycle_u32 |-> 2, minCycle_u32 |-> 2, maxCycle_u32 |-> 2]
  /\ main_g_RuntimeMeas_s[1] = ZeroMeas
  /\ main_g_RuntimeMeas_s[2] = ZeroMeas

\* C7 (P4 sentinel replacement): a record applied to a slot whose minCycle is
\* 0 leaves minCycle equal to the recorded duration, whatever the duration.
C7_SentinelReplaced ==
  [][ ( /\ log' # log
        /\ main_g_RuntimeMeas_s[main_g_CurrTaskIndex_u16].minCycle_u32 = 0 )
      => LET i == main_g_CurrTaskIndex_u16
         IN main_g_RuntimeMeas_s'[i].minCycle_u32 = hist'[i][Len(hist'[i])] ]_vars

\* C7 witness: after durations 1 then 0 the minimum was 0, and the next
\* record, of 2, became the minimum although 2 exceeds the earlier values
C7_Witness ==
  \E i \in Slots :
    /\ hist[i] = << 1, 0, 2 >>
    /\ main_g_RuntimeMeas_s[i].minCycle_u32 = 2

\* C8 (Scenario C generalised): after a non-empty sequence of non-zero
\* durations on a slot, current is the last one, min the true minimum and
\* max the true maximum.
C8_NonZeroStats ==
  \A i \in Slots :
    ( /\ hist[i] # << >>
      /\ \A k \in 1 .. Len(hist[i]) : hist[i][k] # 0 )
    => /\ main_g_RuntimeMeas_s[i].currentCycle_u32 = hist[i][Len(hist[i])]
       /\ main_g_RuntimeMeas_s[i].minCycle_u32 = SeqMin(hist[i])
       /\ main_g_RuntimeMeas_s[i].maxCycle_u32 = SeqMax(hist[i])

\* C8 witness: the shape of [50, 20, 80]: durations 2, 1, 3 leave
\* current = 3, min = 1, max = 3
C8_Witness ==
  \E i \in Slots :
    /\ hist[i] = << 2, 1, 3 >>
    /\ main_g_RuntimeMeas_s[i] =
         [currentCycle_u32 |-> 3, minCycle_u32 |-> 1, maxCycle_u32 |-> 3]

\* C9 (initialization postcondition): when main_f_Init_v completes, every
\* ledger record is all-zero, the task index is 0 and the last fire time is
\* the clock reading at initialization.
C9_InitPostcondition ==
  [][ main_f_Init_v =>
        /\ \A i \in Slots : main_g_RuntimeMeas_s'[i] = ZeroMeas
        /\ main_g_CurrTaskIndex_u16' = 0
        /\ main_g_LastMicros_u64' = clock' ]_vars

\* C10 (fail-fast configuration check): when the number of dispatch entries
\* differs from the task slot count, no slot is ever dispatched.
C10_FailFast ==
  (MAIN_CYCLE_TASK_COUNT # SwitchCaseCount) => (log = << >>)

\* C11 (dispatch by index): a firing tick at task index i calls exactly the
\* handler bound to slot i (0: button, 1: potentiometer, 2: servo), once, and
\* none for an unbound slot; in both cases the tick is a fire: the last fire
\* time is the clock reading, a duration is recorded for slot i and the index
\* advances.
C11_DispatchByIndex ==
  [][ (log' # log) =>
        LET i == main_g_CurrTaskIndex_u16
            bound == IF i = 0 THEN << "btn_Handle_v" >>
                     ELSE IF i = 1 THEN << "pot_f_Handle_v" >>
                     ELSE IF i = 2 THEN << "srv_Handle_v" >>
                     ELSE << >>
        IN /\ calls' = calls \o bound
           /\ log' = Append(log, i)
           /\ main_g_LastMicros_u64' = clock
           /\ Len(hist'[i]) = Len(hist[i]) + 1
           /\ main_g_CurrTaskIndex_u16' = (i + 1) % MAIN_CYCLE_TASK_COUNT ]_vars

\* C11 witness: slots 0..3 fired; the three bound handlers were called once
\* each, the unbound slot 3 called nothing and still recorded a duration
C11_Witness ==
  /\ MAIN_CYCLE_TASK_COUNT = 4
  /\ log = << 0, 1, 2, 3 >>
  /\ calls = << "btn_Init_v", "pot_f_Init_v", "srv_Init_v",
                "btn_Handle_v", "pot_f_Handle_v", "srv_Handle_v" >>
  /\ Len(hist[3]) = 1
  /\ main_g_CurrTaskIndex_u16 = 0

\* C14 (slot index range): the task index is always a valid slot, below the
\* number of case labels (the default branch is never taken), and after the
\* last slot has fired the index is 0.
C14_IndexInRange ==
  /\ main_g_CurrTaskIndex_u16 \in Slots
  /\ main_g_CurrTaskIndex_u16 < SwitchCaseCount
  /\ ( /\ log # << >>
       /\ log[Len(log)] = MAIN_CYCLE_TASK_COUNT - 1 )
     => main_g_CurrTaskIndex_u16 = 0

\* C14 witness: the last of three slots has just fired and the index is 0
C14_Witness ==
  /\ MAIN_CYCLE_TASK_COUNT = 3
  /\ log = << 0, 1, 2 >>
  /\ main_g_CurrTaskIndex_u16 = 0

\* C15 (measurement attribution): a firing tick stores the duration it
\* measured in the ledger entry of the dispatched slot (the index before the
\* increment) and leaves every other entry unchanged.
C15_MeasurementAttribution ==
  [][ (log' # log) =>
        LET i == main_g_CurrTaskIndex_u16
        IN /\ main_g_RuntimeMeas_s'[i].currentCycle_u32 = USub(clock', clock, U32)
           /\ \A j \in Slots \ {i} :
                main_g_RuntimeMeas_s'[j] = main_g_RuntimeMeas_s[j] ]_vars

\* C15 witness: slot 1 fired with duration 3 after slot 0 fired with
\* duration 1; slot 0's record is as slot 0's fire left it
C15_Witness ==
  /\ MAIN_CYCLE_TASK_COUNT >= 2
  /\ log = << 0, 1 >>
  /\ main_g_RuntimeMeas_s[0] =
       [currentCycle_u32 |-> 1, minCycle_u32 |-> 1, maxCycle_u32 |-> 1]
  /\ main_g_RuntimeMeas_s[1] =
       [currentCycle_u32 |-> 3, minCycle_u32 |-> 3, maxCycle_u32 |-> 3]

\* the durations of s that follow its last 0 (all of s when it holds no 0)
AfterLastZero(s) ==
  LET zeros == {k \in 1 .. Len(s) : s[k] = 0}
      from == IF zeros = {} THEN 1
              ELSE 1 + (CHOOSE k \in zeros : \A z \in zeros : z <= k)
  IN SubSeq(s, from, Len(s))

\* C16 (minimum tracking with zero durations): minCycle is 0 exactly when the
\* slot has no record or its latest duration is 0; otherwise it is the
\* minimum of the durations recorded after the latest 0.
C16_MinSinceZero ==
  \A i \in Slots :
    LET s == hist[i]
        zeroCase == (s = << >>) \/ (s[Len(s)] = 0)
    IN /\ (main_g_RuntimeMeas_s[i].minCycle_u32 = 0) <=> zeroCase
       /\ (~ zeroCase)
            => main_g_RuntimeMeas_s[i].minCycle_u32 = SeqMin(AfterLastZero(s))

\* C16 witness: durations 1, 0, 3, 2 leave the minimum at 2, above the true
\* minimum of the slot
C16_Witness ==
  \E i \in Slots :
    /\ hist[i] = << 1, 0, 3, 2 >>
    /\ main_g_RuntimeMeas_s[i].minCycle_u32 = 2

\* C20 (duration measurement arithmetic): the duration recorded by a firing
\* tick is the time d the handler ran, for every d below the counter's
\* period, also when the counter wraps between start and stop.
C20_DurationArithmetic ==
  [][ (log' # log) =>
        \E d \in 0 .. (U32 - 1) :
          /\ clock' = (clock + d) % U32
          /\ main_g_RuntimeMeas_s'[main_g_CurrTaskIndex_u16].currentCycle_u32 = d
          /\ hist'[main_g_CurrTaskIndex_u16]
               = Append(hist[main_g_CurrTaskIndex_u16], d) ]_vars

\* C20 witness: the slot fired at the counter's last value, the handler ran
\* for 2 units across the wrap, and 2 was recorded
C20_Witness ==
  /\ log = << 0 >>
  /\ main_g_LastMicros_u64 = U32 - 1
  /\ main_g_CurrMicros_u64 = U32 - 1
  /\ clock = 1
  /\ main_g_RuntimeMeas_s[0].currentCycle_u32 = 2
  /\ hist[0] = << 2 >>

\* a step that dispatches slot i: the last fire time moves while the index is i
FiresSlot(i) ==
  /\ main_g_CurrTaskIndex_u16 = i
  /\ main_g_LastMicros_u64' # main_g_LastMicros_u64

C18_DispatchIgnoresLedger ==
  /\ run2_log = log
  /\ run2_CurrTaskIndex_u16 = main_g_CurrTaskIndex_u16
  /\ run2_LastMicros_u64 = main_g_LastMicros_u64

\* C18 witness: both runs dispatched slots 0 and 1; the first run measured
\* 2 and 0, the second 0 and 2, so the ledgers differ in both slots
C18_Witness ==
  /\ MAIN_CYCLE_TASK_COUNT = 2
  /\ log = << 0, 1 >>
  /\ run2_log = << 0, 1 >>
  /\ main_g_RuntimeMeas_s[0].maxCycle_u32 = 2
  /\ main_g_RuntimeMeas_s[1].maxCycle_u32 = 0
  /\ run2_RuntimeMeas_s[0].maxCycle_u32 = 0
  /\ run2_RuntimeMeas_s[1].maxCycle_u32 = 2

\* how many times x occurs in the sequence s
Count(s, x) == Cardinality({ k \in 1 .. Len(s) : s[k] = x })

HandleCalls == { "btn_Handle_v", "pot_f_Handle_v", "srv_Handle_v" }

\* the ledger has been zeroed and every collaborator initialized once
InitComplete ==
  /\ \E k \in 1 .. Len(initDone) : initDone[k] = "zero"
  /\ \A c \in InitCalls : Count(calls, c) = 1

\* a step of the main_f_SerialDebug_v task
DiagStep == dpc # "none" /\ dpc' # dpc

\* C12 (initialization precedes scheduling): once loop() may run, and
\* whenever a tick has begun or a slot was dispatched, the ledger has been
\* zeroed and each collaborator's init was called exactly once; every handle
\* call comes after the three init calls; and the diagnostics task exists
\* only after the ledger was zeroed and the collaborators initialized.
C12_InitBeforeScheduling ==
  /\ (pc = "run" \/ log # << >> \/ hpc # "poll") => InitComplete
  /\ \A c \in InitCalls : Count(calls, c) <= 1
  /\ \A k \in 1 .. Len(calls) :
       calls[k] \in HandleCalls =>
         \A c \in InitCalls : \E j \in 1 .. (k - 1) : calls[j] = c
  /\ dpc # "none" => InitComplete

\* C12 witness: init done, the diagnostics task running, two slots dispatched
C12_Witness ==
  /\ pc = "run"
  /\ dpc = "min"
  /\ initDone = InitOrder
  /\ calls = << "btn_Init_v", "pot_f_Init_v", "srv_Init_v",
                "btn_Handle_v", "pot_f_Handle_v" >>

\* C13 (single writer): no step of the diagnostics task changes the task
\* index, the last fire time or any ledger record, or calls a collaborator's
\* handle; those change only in steps of main_f_Init_v and main_f_Handle_v.
C13_SingleWriter ==
  [][DiagStep => UNCHANGED << main_g_CurrTaskIndex_u16, main_g_LastMicros_u64,
                              main_g_RuntimeMeas_s, calls, log >>]_vars

\* C13 witness: the diagnostics task printed a whole round and called the
\* dumps while the main task is in the middle of main_f_HandleRTMStats_v
\* with a non-zero record
C13_Witness ==
  /\ dpc = "delay"
  /\ Len(dbgCalls) = 3
  /\ hpc = "minlower"
  /\ main_g_RuntimeMeas_s[0].maxCycle_u32 = 2

\* C19 (consistency of concurrent diagnostics reads): every triple the
\* diagnostics task printed for a record is all-zero or has
\* min <= current <= max.
C19_ConsistentTriple ==
  dpc = "next" =>
    \/ printed = ZeroMeas
    \/ /\ printed.minCycle_u32 <= printed.currentCycle_u32
       /\ printed.currentCycle_u32 <= printed.maxCycle_u32

====
